---- MODULE Spec2Model ----
(***************************************************************************)
(* Thermal gait analysis service: the video-to-verdict pipeline.           *)
(*                                                                         *)
(*  Spec          the analysis orchestrator of backend/app/api/videos.py:  *)
(*                one video record, the upload / trigger / status          *)
(*                handlers, and the background runs of                     *)
(*                process_video_analysis_sync, interleaved at their        *)
(*                database commits and external calls.                     *)
(*  SpecValidate  validate_thermal_video (core/file_handler.py) and        *)
(*                gei_from_video (ml/processor.py) applied to every video  *)
(*                of a bounded family, one loop iteration per step.        *)
(***************************************************************************)
EXTENDS Integers, Sequences, FiniteSets, TLC

\* ------------------------------------------------------------------ bounds

\* Background tasks that can be scheduled for the video (upload + triggers).
MaxRuns == 2

Runs == 1..MaxRuns

\* ------------------------------------------------- orchestrator: the data

VARIABLES
    exists,            \* the VideoRecord row is in the database
    analysis_status,   \* VideoRecord.analysis_status
    analysis_results,  \* VideoRecord.analysis_results
    upload_response,   \* HTTP status of the last answer of POST /videos/upload
    upload_validation, \* how validate_thermal_video ended in the last upload
    files_stored,      \* the upload directory of the video is on disk
    trigger_response,  \* HTTP status of the last answer of POST /videos/{id}/process
    pc,                \* pc[r]: position of background run r
    outcome,           \* outcome[r]: what analyze_video_sync gave run r
    exc,               \* exc[r]: str(e) of the exception run r caught
    writes,            \* writes[r]: the updates run r has committed, in order
    notified,          \* notified[r]: calls of notify_threat_detected by r
    notify_result,     \* notify_result[r]: how that call ended
    status_writer      \* who committed the current analysis_status

orchVars == <<exists, analysis_status, analysis_results, upload_response,
              upload_validation, files_stored, trigger_response, pc, outcome,
              exc, writes,
              notified, notify_result, status_writer>>

\* ------------------------------------ validator and energy image: the data

VARIABLES
    video_opened,         \* cap.isOpened() for the file
    frames,               \* the frames cap.read() yields, in order
    cap_frame_count,      \* int(cap.get(cv2.CAP_PROP_FRAME_COUNT))
    sample_frames,        \* validate_thermal_video's keyword argument
    strict,               \* STRICT_THERMAL_VALIDATION
    v_pc,                 \* position in validate_thermal_video
    step,
    frame_index,
    checked,
    non_thermal,
    thermal_like,
    uncertain,
    sum_colorfulness,
    sum_saturation,       \* in hundredths
    frames_with_metrics,
    v_result,             \* "accepted" or the exception raised
    g_pc,                 \* position in gei_from_video
    max_frames,           \* gei_from_video's argument, NoMaxFrames for None
    acc,                  \* sum of the masks, one pixel, in halves
    n,
    g_result,             \* "returned" or the exception raised
    gei,                  \* a pixel of the returned array, as a fraction
    gei_prev              \* what the call of gei_from_video before this one gave

valVars == <<video_opened, frames, cap_frame_count, sample_frames, strict, v_pc,
             step, frame_index, checked, non_thermal, thermal_like, uncertain,
             sum_colorfulness, sum_saturation, frames_with_metrics, v_result,
             g_pc, max_frames, acc, n, g_result, gei, gei_prev>>

\* --------------------------------------------------------- scoring: the data

\* Scores, thresholds and confidences are in units of 0.00001.
VARIABLES
    s_pc,                 \* position in analyze_video's scoring steps
    service_class,        \* which analyze_video of the repository is running
    threshold,            \* self.threshold, or the config's optimal_threshold
    recon_error,
    latent_score,         \* latent_norm in MLInferenceService
    combined_score,
    threat_detected,
    confidence,           \* confidence_score in MLInferenceService
    threat_confidence,
    results               \* the dictionary analyze_video returns

scoreVars == <<s_pc, service_class, threshold, recon_error, latent_score,
               combined_score, threat_detected, confidence, threat_confidence,
               results>>

\* ------------------------------------------------- the ML service: the data

VARIABLES
    ml_service,           \* the global _ml_service is not None
    initialized,          \* GaitAnalysisService._initialized
    service,              \* the attributes of the singleton instance
    host_device,          \* what device_auto() returns in this process
    checkpoint,           \* what the file models/autoencoder.pt contains
    j_pc,                 \* j_pc[t]: position of background job t
    j_ret,                \* j_ret[t]: who called load_model in job t
    j_result,             \* j_result[t]: "score" or the exception raised
    scored_with,          \* scored_with[t]: self.model as job t ran inference
    load_count,           \* executions of load_model's body begun so far
    load_failed,          \* some execution of load_model has raised
    cached_calls          \* calls of load_model that returned at line 52

svcVars == <<ml_service, initialized, service, host_device, checkpoint, j_pc,
             j_ret, j_result, scored_with, load_count, load_failed,
             cached_calls>>

\* _compute_latent_distance on one service object.
VARIABLES
    l_pc,                 \* "init", "loaded" or "scored"
    artifact,             \* the checkpoint file: its keys and latent statistics
    l_mean,               \* self._latent_mean
    l_cov_inv,            \* self._latent_cov_inv
    l_z,                  \* the latent vector of the last call
    l_kind,               \* branch taken by the last call
    l_distance            \* value returned by the last call, in tenths

latVars == <<l_pc, artifact, l_mean, l_cov_inv, l_z, l_kind, l_distance>>

\* notify_threat_detected and send_email.
VARIABLES
    m_pc,                 \* position inside notify_threat_detected / send_email
    alert_email_recipients, \* settings.alert_email_recipients
    smtp_server,          \* settings.smtp_server
    smtp_port,            \* settings.smtp_port
    gei_path,             \* analysis_results.get("gei_path")
    recipients,           \* send_email's filtered recipient list
    message,              \* the message built by send_email
    send_called,          \* send_email has been entered
    attach_failed,        \* the attach block raised and was logged
    smtp_raised,          \* the SMTP session raised
    m_caller,             \* "notify": called by notify_threat_detected; "direct"
    send_return,          \* send_email's return value
    notify_return,        \* notify_threat_detected's return value
    m_exc                 \* an exception left notify_threat_detected

mailVars == <<m_pc, alert_email_recipients, smtp_server, smtp_port, gei_path,
              recipients, message, send_called, attach_failed, smtp_raised,
              m_caller, send_return, notify_return, m_exc>>

vars == <<orchVars, valVars, scoreVars, svcVars, latVars, mailVars>>

\* Who commits: background run r, or a request handler (upload, PATCH).
ByRun(r) == [by |-> "run", run |-> r]
Handler == [by |-> "handler", run |-> 0]

\* Field(..., pattern="^(pending|processing|completed|failed)$")
StatusPatternUnchecked == {"pending", "processing", "completed", "failed", "cancelled"}
StatusPattern == {"pending", "processing", "completed", "failed"}

\* A JSON dictionary as stored in analysis_results, or None (kind "none").
\* A verdict is tagged with the run that computed it (processing_time, gei_path
\* and the scores make the dictionaries of two runs distinguishable).
NoResults == [kind |-> "none", run |-> 0, threat_detected |-> FALSE, error |-> ""]
EmptyDict == [kind |-> "empty", run |-> 0, threat_detected |-> FALSE, error |-> ""]
ManualResults == [kind |-> "manual", run |-> 0, threat_detected |-> FALSE, error |-> ""]
Verdict(r, threat) == [kind |-> "verdict", run |-> r, threat_detected |-> threat, error |-> ""]
ErrorResults(msg) == [kind |-> "error", run |-> 0, threat_detected |-> FALSE, error |-> msg]

\* Python truthiness of Optional[Dict]: None and {} are falsy.
Truthy(d) == d.kind \notin {"none", "empty"}

\* str(e) of what analyze_video_sync can raise: analyze_video wraps every
\* failure of its pipeline in RuntimeError("ML analysis failed: ..."), and a
\* failure of load_model inside get_ml_service propagates as it is.
AnalysisErrors == {"ML analysis failed: No frames processed", "load_model failed"}
DbError == "database commit failed"
NotFoundError == "Video not found in database"

\* What analyze_video_sync can give run r: a result dictionary or an exception.
AnalysisOutcomes(r) ==
    {Verdict(r, t) : t \in BOOLEAN} \cup {ErrorResults(m) : m \in AnalysisErrors}

\* What validate_thermal_video can do inside upload_video.
ValidateOutcomes == {"accepted", "FileValidationError", "Exception"}

\* What the request body of PATCH /videos/{id}/status can carry.
PatchPayloads == {NoResults, EmptyDict, ManualResults}

\* -------------------------------------------- orchestrator: the operations

\* crud.update_analysis_status: the value of analysis_results after the call.
PersistedResultsDropped(res) == analysis_results
PersistedResults(res) == IF Truthy(res) THEN res ELSE analysis_results

\* crud.update_analysis_status, committed by `who`: status and results are
\* assigned and committed together; a missing row is left alone (returns None).
UpdateAnalysisStatus(st, res, who) ==
    IF exists
    THEN /\ analysis_status' = st
         /\ analysis_results' = PersistedResults(res)
         /\ status_writer' = who
    ELSE UNCHANGED <<analysis_status, analysis_results, status_writer>>

\* The first task slot not yet handed to BackgroundTasks.add_task.
FreeRuns == {r \in Runs : pc[r] = "unscheduled"}
NextRun == CHOOSE r \in FreeRuns : \A q \in FreeRuns : r <= q

\* What one POST /videos/upload can meet: an outcome of validate_thermal_video,
\* or, the footage accepted, create_video_record raising.
RecordError == "SQLAlchemyError"
UploadOutcomes == ValidateOutcomes \cup {RecordError}

\* create_video_record and add_task are reached only when
\* validate_thermal_video returned and nothing after it raised.
UploadReachesRecordAlways(v) == TRUE
UploadReachesRecord(v) == v = "accepted"

\* POST /videos/upload: save_uploaded_file, validate_thermal_video,
\* create_video_record, add_task. Every failure path ends in
\* delete_video_files. When validate_thermal_video raises, the handler raises
\* HTTPException(400) inside its own try block; HTTPException is an
\* Exception, so the handler's last except clause answers 500, as it does
\* when create_video_record raises.
UploadVideo(v) ==
    /\ ~exists
    /\ FreeRuns # {}
    /\ upload_validation' = IF v \in ValidateOutcomes THEN v ELSE "accepted"
    /\ IF UploadReachesRecord(v)
       THEN /\ exists' = TRUE
            /\ files_stored' = TRUE
            /\ analysis_status' = "pending"
            /\ analysis_results' = NoResults
            /\ status_writer' = Handler
            /\ pc' = [pc EXCEPT ![NextRun] = "scheduled"]
            /\ upload_response' = 200
       ELSE /\ files_stored' = FALSE
            /\ upload_response' = 500
            /\ UNCHANGED <<exists, analysis_status, analysis_results, status_writer, pc>>
    /\ UNCHANGED <<trigger_response, outcome, exc, writes, notified, notify_result>>
    /\ UNCHANGED <<valVars, scoreVars, svcVars, latVars, mailVars>>

\* POST /videos/{id}/process: 409 while the persisted status is "processing",
\* otherwise one more background task; the record itself is not written.
AlreadyProcessingIgnored == FALSE
AlreadyProcessing == analysis_status = "processing"

TriggerVideoProcessing ==
    /\ exists
    /\ IF AlreadyProcessing
       THEN /\ trigger_response' = 409
            /\ UNCHANGED pc
       ELSE /\ FreeRuns # {}
            /\ pc' = [pc EXCEPT ![NextRun] = "scheduled"]
            /\ trigger_response' = 200
    /\ UNCHANGED <<exists, analysis_status, analysis_results, upload_response,
                   upload_validation, files_stored, outcome, exc, writes,
                   notified, notify_result, status_writer>>
    /\ UNCHANGED <<valVars, scoreVars, svcVars, latVars, mailVars>>

\* PATCH /videos/{id}/status: any status the schema accepts, from any status.
PatchAnalysisStatus(st, res) ==
    /\ exists
    /\ st \in StatusPattern
    /\ UpdateAnalysisStatus(st, res, Handler)
    /\ UNCHANGED <<exists, upload_response, upload_validation,
                   files_stored, trigger_response, pc, outcome, exc, writes, notified,
                   notify_result>>
    /\ UNCHANGED <<valVars, scoreVars, svcVars, latVars, mailVars>>

\* Run r commits update_analysis_status(st, res).
Commit(r, st, res) ==
    /\ UpdateAnalysisStatus(st, res, ByRun(r))
    /\ writes' = [writes EXCEPT ![r] = Append(@, <<st, res>>)]

\* Run r's commit raises: nothing is written, the run goes to its handler.
Raise(r, msg) ==
    /\ exc' = [exc EXCEPT ![r] = msg]
    /\ pc' = [pc EXCEPT ![r] = "except"]

\* process_video_analysis_sync, lines 53-63: fetch the record and commit
\* "processing". The run does not look at the status it overwrites.
StartRun(r) ==
    /\ pc[r] = "scheduled"
    /\ IF ~exists
       THEN /\ Raise(r, NotFoundError)
            /\ UNCHANGED <<analysis_status, analysis_results, status_writer, writes>>
       ELSE \E ok \in BOOLEAN :
              IF ok
              THEN /\ Commit(r, "processing", NoResults)
                   /\ pc' = [pc EXCEPT ![r] = "analyzing"]
                   /\ UNCHANGED exc
              ELSE /\ Raise(r, DbError)
                   /\ UNCHANGED <<analysis_status, analysis_results, status_writer, writes>>
    /\ UNCHANGED <<exists, upload_response, upload_validation,
                   files_stored, trigger_response, outcome, notified, notify_result>>
    /\ UNCHANGED <<valVars, scoreVars, svcVars, latVars, mailVars>>

\* Line 67: analyze_video_sync returns a result dictionary or raises.
Analyze(r) ==
    /\ pc[r] = "analyzing"
    /\ \E o \in AnalysisOutcomes(r) :
         /\ outcome' = [outcome EXCEPT ![r] = o]
         /\ IF o.kind = "verdict"
            THEN /\ pc' = [pc EXCEPT ![r] = "analyzed"]
                 /\ UNCHANGED exc
            ELSE Raise(r, o.error)
    /\ UNCHANGED <<exists, analysis_status, analysis_results, upload_response, upload_validation,
                   files_stored, trigger_response,
                   writes, notified, notify_result, status_writer>>
    /\ UNCHANGED <<valVars, scoreVars, svcVars, latVars, mailVars>>

\* Line 84: where the run goes after the "completed" commit.
AfterCompletedAlways(res) == "notify"
AfterCompleted(res) == IF res.threat_detected THEN "notify" ELSE "done"

\* Lines 70-84: commit "completed" with the run's result in one update.
WriteCompleted(r) ==
    /\ pc[r] = "analyzed"
    /\ \E ok \in BOOLEAN :
         IF ok
         THEN /\ Commit(r, "completed", outcome[r])
              /\ pc' = [pc EXCEPT ![r] = AfterCompleted(outcome[r])]
              /\ UNCHANGED exc
         ELSE /\ Raise(r, DbError)
              /\ UNCHANGED <<analysis_status, analysis_results, status_writer, writes>>
    /\ UNCHANGED <<exists, upload_response, upload_validation,
                   files_stored, trigger_response, outcome, notified, notify_result>>
    /\ UNCHANGED <<valVars, scoreVars, svcVars, latVars, mailVars>>

\* What notify_threat_detected can do: deliver (True), fail to deliver or
\* have no recipients (False), or raise.
NotifyResults == {"sent", "not_sent", "raised"}

\* Lines 85-88 without the inner try/except: the exception reaches line 90.
NotifyThreatUnguarded(r, how) ==
    /\ notified' = [notified EXCEPT ![r] = @ + 1]
    /\ notify_result' = [notify_result EXCEPT ![r] = how]
    /\ IF how = "raised"
       THEN Raise(r, "notification failed")
       ELSE /\ pc' = [pc EXCEPT ![r] = "done"]
            /\ UNCHANGED exc

\* Lines 84-88: the notification, whose exception is caught and printed.
NotifyThreat(r, how) ==
    /\ notified' = [notified EXCEPT ![r] = @ + 1]
    /\ notify_result' = [notify_result EXCEPT ![r] = how]
    /\ pc' = [pc EXCEPT ![r] = "done"]
    /\ UNCHANGED exc

Notify(r) ==
    /\ pc[r] = "notify"
    /\ \E how \in NotifyResults : NotifyThreat(r, how)
    /\ UNCHANGED <<exists, analysis_status, analysis_results, upload_response, upload_validation,
                   files_stored, trigger_response,
                   outcome, writes, status_writer>>
    /\ UNCHANGED <<valVars, scoreVars, svcVars, latVars, mailVars>>

\* Lines 90-104: the handler commits "failed" with {"error": str(e)}; an
\* exception of that commit is swallowed (bare except: pass).
HandleException(r) ==
    /\ pc[r] = "except"
    /\ \E ok \in BOOLEAN :
         IF ok
         THEN Commit(r, "failed", ErrorResults(exc[r]))
         ELSE UNCHANGED <<analysis_status, analysis_results, status_writer, writes>>
    /\ pc' = [pc EXCEPT ![r] = "done"]
    /\ UNCHANGED <<exists, upload_response, upload_validation,
                   files_stored, trigger_response, outcome, exc, notified, notify_result>>
    /\ UNCHANGED <<valVars, scoreVars, svcVars, latVars, mailVars>>

OrchInit ==
    /\ exists = FALSE
    /\ analysis_status = "pending"
    /\ analysis_results = NoResults
    /\ upload_response = 0
    /\ upload_validation = "none"
    /\ files_stored = FALSE
    /\ trigger_response = 0
    /\ pc = [r \in Runs |-> "unscheduled"]
    /\ outcome = [r \in Runs |-> NoResults]
    /\ exc = [r \in Runs |-> ""]
    /\ writes = [r \in Runs |-> <<>>]
    /\ notified = [r \in Runs |-> 0]
    /\ notify_result = [r \in Runs |-> "none"]
    /\ status_writer = Handler

OrchNext ==
    \/ \E v \in UploadOutcomes : UploadVideo(v)
    \/ TriggerVideoProcessing
    \/ \E st \in StatusPattern, res \in PatchPayloads : PatchAnalysisStatus(st, res)
    \/ \E r \in Runs : StartRun(r)
    \/ \E r \in Runs : Analyze(r)
    \/ \E r \in Runs : WriteCompleted(r)
    \/ \E r \in Runs : Notify(r)
    \/ \E r \in Runs : HandleException(r)

\* --------------------------------------------------- orchestrator: claims

\* Run r has committed "processing" and neither committed its final status
\* nor ended.
WroteProcessing(r) == Len(writes[r]) >= 1 /\ writes[r][1][1] = "processing"
WroteFinal(r) == \E i \in 1..Len(writes[r]) : writes[r][i][1] \in {"completed", "failed"}
InFlight(r) == WroteProcessing(r) /\ ~WroteFinal(r) /\ pc[r] # "done"

\* Run r committed "completed" as its final status.
CompletedBy(r) == Len(writes[r]) = 2 /\ writes[r][2][1] = "completed"

\* C1: for one video, at most one analysis run is in flight at any time
\* (between its commit of "processing" and its commit of "completed" or
\* "failed"), whatever the interleaving of triggers and background runs.
C1_AtMostOneInFlight == Cardinality({r \in Runs : InFlight(r)}) <= 1

\* C2 (as stated): the status is one of the four values and only ever changes
\* along pending->processing, processing->completed, processing->failed, so a
\* completed or failed status never changes again.
C2_AllowedTransitions ==
    {<<"pending", "processing">>, <<"processing", "completed">>,
     <<"processing", "failed">>}
C2_OnlyForwardTransitions ==
    [][(exists /\ exists' /\ analysis_status' # analysis_status)
         => <<analysis_status, analysis_status'>> \in C2_AllowedTransitions]_vars

\* C2 (amended): in every reachable state the status is one of pending,
\* processing, completed, failed, and a background run commits nothing but
\* "processing" followed by at most one of "completed" or "failed" ("failed"
\* alone when its "processing" commit raised); the record's status itself is
\* not terminal: a re-trigger, an overlapping run or PATCH /status changes a
\* completed or failed status again.
C2_StatusInPatternAndRunOrder ==
    /\ exists => analysis_status \in {"pending", "processing", "completed", "failed"}
    /\ \A r \in Runs :
         /\ Len(writes[r]) <= 2
         /\ Len(writes[r]) = 1 => writes[r][1][1] \in {"processing", "failed"}
         /\ Len(writes[r]) = 2 => /\ writes[r][1][1] = "processing"
                                  /\ writes[r][2][1] \in {"completed", "failed"}

\* C2 witness: a run has committed its final status and the record is back
\* in "processing", committed by another run.
C2_Witness ==
    /\ exists
    /\ analysis_status = "processing"
    /\ \E r \in Runs : pc[r] = "done" /\ Len(writes[r]) = 2 /\ status_writer \notin {ByRun(r), Handler}

\* C3: a run whose analyze_video_sync raised ends having committed "failed"
\* with {"error": <the exception message>}, and never commits "completed".
C3_FailedPersistedOnAnalysisError ==
    \A r \in Runs :
      (pc[r] = "done" /\ outcome[r].kind = "error")
        => /\ Len(writes[r]) = 2
           /\ writes[r][2] = <<"failed", ErrorResults(outcome[r].error)>>

\* C4: no run that committed "processing" ends without committing
\* "completed" or "failed", whichever step raised.
C4_NoRunEndsInProcessing ==
    \A r \in Runs :
      (pc[r] = "done" /\ WroteProcessing(r)) => WroteFinal(r)

\* C5: whenever the status a run left is "completed", analysis_results is the
\* result dictionary analyze_video_sync returned to that run: status and
\* verdict are committed together.
C5_CompletedCarriesVerdict ==
    \A r \in Runs :
      (exists /\ analysis_status = "completed" /\ status_writer = ByRun(r))
        => /\ outcome[r].kind = "verdict"
           /\ analysis_results = outcome[r]

\* C5 witness: a run has left the record completed.
C5_Witness ==
    exists /\ analysis_status = "completed" /\ status_writer # Handler
      /\ analysis_results.kind = "verdict"

\* C6: a finished run has called notify_threat_detected exactly once if it
\* committed "completed" with threat_detected = true and never otherwise, and
\* a call is always preceded by the run's "completed" commit.
C6_NotifyExactlyOnceOnThreat ==
    \A r \in Runs :
      /\ notified[r] > 0 => CompletedBy(r)
      /\ pc[r] = "done" =>
           notified[r] = (IF CompletedBy(r) /\ outcome[r].threat_detected THEN 1 ELSE 0)

\* C6 witness: a finished run that notified, and a finished run that
\* completed without a threat.
C6_Witness ==
    /\ \E r \in Runs : pc[r] = "done" /\ notified[r] = 1
    /\ \E r \in Runs : pc[r] = "done" /\ CompletedBy(r) /\ notified[r] = 0

\* C7: a run whose notification raised or returned False ends there: its
\* commits are "processing" and "completed" with its verdict, it never
\* commits "failed", and what it left in the record is its verdict.
C7_NotificationFailureKeepsVerdict ==
    \A r \in Runs :
      notify_result[r] \in {"not_sent", "raised"}
        => /\ pc[r] = "done"
           /\ writes[r] = << <<"processing", NoResults>>, <<"completed", outcome[r]>> >>
           /\ (exists /\ status_writer = ByRun(r))
                => (analysis_status = "completed" /\ analysis_results = outcome[r])

\* C7 witness: the notification raised and the record holds the verdict.
C7_Witness ==
    \E r \in Runs :
      /\ notify_result[r] = "raised"
      /\ status_writer = ByRun(r)
      /\ analysis_status = "completed"
      /\ analysis_results = outcome[r]



\* C27: trigger_video_processing answers 409, schedules nothing and leaves
\* the record as it is while the persisted status is "processing"; in any
\* other status it schedules exactly one task and itself leaves
\* analysis_status and analysis_results as they are.
C27_TriggerRefusedOnlyWhileProcessing ==
    [][TriggerVideoProcessing =>
          /\ exists' = exists
          /\ analysis_status' = analysis_status
          /\ analysis_results' = analysis_results
          /\ IF analysis_status = "processing"
             THEN /\ trigger_response' = 409
                  /\ pc' = pc
             ELSE /\ trigger_response' = 200
                  /\ Cardinality({r \in Runs : pc'[r] # pc[r]}) = 1
                  /\ \A r \in Runs :
                        pc'[r] # pc[r] =>
                            (pc[r] = "unscheduled" /\ pc'[r] = "scheduled")]_vars

\* C27 witness: a trigger has been refused with 409 while the status is
\* "processing", a task slot being free.
C27_Witness ==
    /\ trigger_response = 409
    /\ analysis_status = "processing"
    /\ \E r \in Runs : pc[r] = "unscheduled"

\* The last upload ended with validate_thermal_video raising.
UploadRejected == upload_validation \in {"FileValidationError", "Exception"}

C19_RejectionAnswered400 == UploadRejected => upload_response = 400

\* --------------------------- validator and energy image: frames and videos

\* Longest video of the family, largest sample_frames and max_frames tried.
MaxFrames == 4
MaxSample == 3
MaxFramesArg == 2

\* max_frames = None
NoMaxFrames == -1

\* A decoded frame, by what validate_thermal_video measures on it (lines
\* 96-133; mean_saturation, hue_std and colorful_ratio in hundredths) and by
\* one pixel of its resized silhouette mask, in halves (gei_from_video,
\* lines 40-43).
FrameGray1 ==
    [channels |-> 1, mean_saturation |-> 0, hue_std |-> 0, colorfulness |-> 0,
     mean_channel_spread |-> 0, colorful_ratio |-> 0, mean_diff |-> 0,
     unique_sats |-> 1, dominant_hue_bins |-> 1, mask |-> 0]
FrameGrayBGR ==
    [channels |-> 3, mean_saturation |-> 0, hue_std |-> 0, colorfulness |-> 0,
     mean_channel_spread |-> 0, colorful_ratio |-> 0, mean_diff |-> 0,
     unique_sats |-> 1, dominant_hue_bins |-> 1, mask |-> 1]
FrameIronbow ==
    [channels |-> 3, mean_saturation |-> 60, hue_std |-> 20, colorfulness |-> 80,
     mean_channel_spread |-> 120, colorful_ratio |-> 90, mean_diff |-> 50,
     unique_sats |-> 10, dominant_hue_bins |-> 4, mask |-> 2]
FrameNatural ==
    [channels |-> 3, mean_saturation |-> 45, hue_std |-> 30, colorfulness |-> 60,
     mean_channel_spread |-> 70, colorful_ratio |-> 80, mean_diff |-> 30,
     unique_sats |-> 26, dominant_hue_bins |-> 9, mask |-> 1]
FrameDimBGRA ==
    [channels |-> 4, mean_saturation |-> 30, hue_std |-> 15, colorfulness |-> 35,
     mean_channel_spread |-> 25, colorful_ratio |-> 50, mean_diff |-> 12,
     unique_sats |-> 18, dominant_hue_bins |-> 5, mask |-> 2]

FrameKinds == {FrameGray1, FrameGrayBGR, FrameIronbow, FrameNatural, FrameDimBGRA}

\* A frame that is one fully saturated colour: BGR (0, 0, 255) or
\* (255, 0, 0) in every pixel. Saturation 255 and one hue everywhere, the
\* Hasler-Suesstrunk colourfulness 0.3 * sqrt(255^2 + 127.5^2) for red and
\* 0.3 * 255 for blue; a uniform frame has an empty silhouette.
FrameSaturatedRed ==
    [channels |-> 3, mean_saturation |-> 100, hue_std |-> 0, colorfulness |-> 85,
     mean_channel_spread |-> 255, colorful_ratio |-> 100, mean_diff |-> 110,
     unique_sats |-> 1, dominant_hue_bins |-> 1, mask |-> 0]
FrameSaturatedBlue ==
    [channels |-> 3, mean_saturation |-> 100, hue_std |-> 0, colorfulness |-> 76,
     mean_channel_spread |-> 255, colorful_ratio |-> 100, mean_diff |-> 94,
     unique_sats |-> 1, dominant_hue_bins |-> 1, mask |-> 0]
SaturatedFrames == {FrameSaturatedRed, FrameSaturatedBlue}

\* Three-channel frames whose measurements lie on either side of every
\* cut-off of lines 136-167.
ProbeFrames ==
    [channels : {3},
     mean_saturation : {19, 24, 25, 40, 41},
     hue_std : {9, 10, 24, 25},
     colorfulness : {29, 30, 39, 40, 41},
     mean_channel_spread : {11, 12, 20, 21},
     colorful_ratio : {35, 36},
     mean_diff : {9, 10},
     unique_sats : {14, 15, 20, 21},
     dominant_hue_bins : {6, 7, 9},
     mask : {1}]

\* One probe frame, or up to MaxFrames saturated or single-channel frames.
ProbeVideos ==
    {<<f>> : f \in ProbeFrames \cup FrameKinds}
      \cup UNION {[1..k -> SaturatedFrames \cup {FrameGray1}] : k \in 1..MaxFrames}

Videos == UNION {[1..k -> FrameKinds] : k \in 0..MaxFrames}

\* ------------------------------------------ validate_thermal_video: steps

Max(a, b) == IF a >= b THEN a ELSE b

\* Lines 136-141.
IsFalseColorThermal(f) ==
    /\ f.unique_sats < 15
    /\ f.dominant_hue_bins <= 6
    /\ f.mean_saturation > 40
    /\ f.hue_std < 25

\* Lines 149-155.
LooksThermal(f) ==
    \/ (f.mean_saturation < 20 /\ f.colorfulness < 30 /\ f.mean_channel_spread < 12)
    \/ (f.mean_saturation < 25 /\ f.colorfulness < 40 /\ f.hue_std < 10 /\ f.mean_diff < 10)
    \/ IsFalseColorThermal(f)

\* Lines 159-167.
ClearlyRgb(f) ==
    /\ ~IsFalseColorThermal(f)
    /\ f.unique_sats > 20
    /\ \/ (f.mean_saturation > 25 /\ f.colorfulness > 40)
       \/ (f.colorful_ratio > 35 /\ f.mean_channel_spread > 20)
       \/ f.dominant_hue_bins > 8

\* Lines 169-180.
DecisionRgbFirst(f) ==
    IF ClearlyRgb(f) THEN "rgb" ELSE IF LooksThermal(f) THEN "thermal" ELSE "uncertain"
Decision(f) ==
    IF LooksThermal(f) THEN "thermal" ELSE IF ClearlyRgb(f) THEN "rgb" ELSE "uncertain"

\* Line 85.
SingleChannel(f) == f.channels = 1

\* Lines 57-59.
StepForEveryFrame(count, samples) == 1
StepFor(count, samples) ==
    Max(IF count > 0 THEN count \div samples ELSE 1, 1)

OpenError == "FileValidationError: Uploaded video could not be opened for validation."
NoFramesError == "FileValidationError: Uploaded video did not contain any readable frames."
RejectionError == "FileValidationError: Uploaded video appears to be standard color footage."

valLoopVars == <<step, frame_index, checked, non_thermal, thermal_like, uncertain,
                 sum_colorfulness, sum_saturation, frames_with_metrics>>
videoVars == <<video_opened, frames, cap_frame_count, sample_frames, strict>>
geiVars == <<g_pc, max_frames, acc, n, g_result, gei, gei_prev>>

\* Lines 52-59: the capture does not open, or the loop is set up.
ValidateOpen ==
    /\ v_pc = "start"
    /\ IF ~video_opened
       THEN /\ v_pc' = "done"
            /\ v_result' = OpenError
            /\ UNCHANGED step
       ELSE /\ v_pc' = "loop"
            /\ step' = StepFor(cap_frame_count, sample_frames)
            /\ UNCHANGED v_result
    /\ UNCHANGED <<frame_index, checked, non_thermal, thermal_like, uncertain,
                   sum_colorfulness, sum_saturation, frames_with_metrics>>
    /\ UNCHANGED <<videoVars, geiVars, orchVars, scoreVars, svcVars, latVars, mailVars>>

\* Lines 74-76: cap.read() has no more frames.
ValidateEndOfVideo ==
    /\ v_pc = "loop"
    /\ frame_index >= Len(frames)
    /\ v_pc' = "aggregate"
    /\ UNCHANGED <<valLoopVars, v_result, videoVars, geiVars, orchVars, scoreVars, svcVars, latVars, mailVars>>

\* Lines 78-80: a frame between two samples.
ValidateSkipFrame ==
    /\ v_pc = "loop"
    /\ frame_index < Len(frames)
    /\ frame_index % step # 0
    /\ frame_index' = frame_index + 1
    /\ UNCHANGED <<step, checked, non_thermal, thermal_like, uncertain,
                   sum_colorfulness, sum_saturation, frames_with_metrics>>
    /\ UNCHANGED <<v_pc, v_result, videoVars, geiVars, orchVars, scoreVars, svcVars, latVars, mailVars>>

\* Lines 82-89: a sampled single-channel frame is counted in checked and in
\* no other counter.
ValidateSingleChannelFrame ==
    /\ v_pc = "loop"
    /\ frame_index < Len(frames)
    /\ frame_index % step = 0
    /\ SingleChannel(frames[frame_index + 1])
    /\ checked' = checked + 1
    /\ frame_index' = frame_index + 1
    /\ v_pc' = IF checked' >= sample_frames THEN "aggregate" ELSE "loop"
    /\ UNCHANGED <<step, non_thermal, thermal_like, uncertain,
                   sum_colorfulness, sum_saturation, frames_with_metrics>>
    /\ UNCHANGED <<v_result, videoVars, geiVars, orchVars, scoreVars, svcVars, latVars, mailVars>>

\* Line 175: the early stop after a frame classified rgb.
EarlyStopNever(rgb, seen) == FALSE
EarlyStop(rgb, seen) == rgb >= Max(1, seen \div 2 + 1)

\* Lines 82, 91-201: a sampled frame of 3 or 4 channels is measured and
\* classified; an rgb frame may stop the sampling at once.
ValidateColorFrame ==
    /\ v_pc = "loop"
    /\ frame_index < Len(frames)
    /\ frame_index % step = 0
    /\ ~SingleChannel(frames[frame_index + 1])
    /\ LET f == frames[frame_index + 1]
           d == Decision(f)
       IN /\ checked' = checked + 1
          /\ frames_with_metrics' = frames_with_metrics + 1
          /\ sum_colorfulness' = sum_colorfulness + f.colorfulness
          /\ sum_saturation' = sum_saturation + f.mean_saturation
          /\ thermal_like' = thermal_like + (IF d = "thermal" THEN 1 ELSE 0)
          /\ non_thermal' = non_thermal + (IF d = "rgb" THEN 1 ELSE 0)
          /\ uncertain' = uncertain + (IF d = "uncertain" THEN 1 ELSE 0)
          /\ IF d = "rgb" /\ EarlyStop(non_thermal', checked')
             THEN /\ v_pc' = "aggregate"
                  /\ UNCHANGED frame_index
             ELSE /\ frame_index' = frame_index + 1
                  /\ v_pc' = IF checked' >= sample_frames THEN "aggregate" ELSE "loop"
    /\ UNCHANGED <<step, v_result, videoVars, geiVars, orchVars, scoreVars, svcVars, latVars, mailVars>>

\* Line 205.
NoReadableFramesUnchecked == FALSE
NoReadableFrames == checked = 0

\* Lines 213-214 and 232-258, the ratios compared as fractions of checked and
\* the averages as fractions of frames_with_metrics.
AvgColorfulnessAbove45 ==
    frames_with_metrics > 0 /\ sum_colorfulness > 45 * frames_with_metrics
AvgSaturationAbove35 ==
    frames_with_metrics > 0 /\ sum_saturation > 35 * frames_with_metrics
HardBlock ==
    \/ thermal_like = 0 /\ checked > 0
    \/ 10 * non_thermal > 3 * checked /\ AvgColorfulnessAbove45
    \/ 2 * uncertain > checked /\ 10 * thermal_like < 3 * checked
    \/ AvgSaturationAbove35 /\ 2 * thermal_like < checked
BalancedBlock == 5 * non_thermal > checked /\ 5 * thermal_like < 2 * checked

\* Lines 205-263: the aggregate decision. Dividing by checked = 0 (line 209)
\* raises ZeroDivisionError.
AggregateDecisionAlwaysStrict(flag) ==
    IF NoReadableFrames THEN NoFramesError
    ELSE IF checked = 0 THEN "ZeroDivisionError"
    ELSE IF HardBlock THEN RejectionError
    ELSE IF BalancedBlock THEN RejectionError
    ELSE "accepted"
AggregateDecision(flag) ==
    IF NoReadableFrames THEN NoFramesError
    ELSE IF checked = 0 THEN "ZeroDivisionError"
    ELSE IF HardBlock THEN RejectionError
    ELSE IF BalancedBlock /\ flag THEN RejectionError
    ELSE "accepted"

ValidateAggregate ==
    /\ v_pc = "aggregate"
    /\ v_pc' = "done"
    /\ v_result' = AggregateDecision(strict)
    /\ UNCHANGED <<valLoopVars, videoVars, geiVars, orchVars, scoreVars, svcVars, latVars, mailVars>>

\* ---------------------------------------------------- gei_from_video: steps

GeiOpenError == "RuntimeError: Cannot open video"
GeiNoFramesError == "RuntimeError: No frames processed"

\* Lines 33-34: acc = None, n = 0; the empty sum is 0.
AccKept == acc
FreshAcc == 0

\* Lines 30-35, for a value of max_frames.
GeiOpen(m) ==
    /\ v_pc \in {"done", "idle"}
    /\ g_pc = "start"
    /\ max_frames' = m
    /\ acc' = FreshAcc
    /\ n' = 0
    /\ IF ~video_opened
       THEN /\ g_pc' = "done"
            /\ g_result' = GeiOpenError
       ELSE /\ g_pc' = "loop"
            /\ UNCHANGED g_result
    /\ UNCHANGED <<gei, gei_prev, v_pc, v_result, valLoopVars, videoVars>>
    /\ UNCHANGED <<orchVars, scoreVars, svcVars, latVars, mailVars>>

\* Line 45; acc = None is the empty sum.
AccumulateLast(sum, mask) == mask
Accumulate(sum, mask) == sum + mask

\* Lines 37-47: one more frame's mask is accumulated.
GeiFrame ==
    /\ g_pc = "loop"
    /\ n < Len(frames)
    /\ acc' = Accumulate(acc, frames[n + 1].mask)
    /\ n' = n + 1
    /\ g_pc' = IF max_frames # NoMaxFrames /\ n' >= max_frames THEN "finish" ELSE "loop"
    /\ UNCHANGED <<max_frames, g_result, gei, gei_prev, v_pc, v_result, valLoopVars,
                   videoVars>>
    /\ UNCHANGED <<orchVars, scoreVars, svcVars, latVars, mailVars>>

\* Lines 37-39: cap.read() has no more frames.
GeiEndOfVideo ==
    /\ g_pc = "loop"
    /\ n >= Len(frames)
    /\ g_pc' = "finish"
    /\ UNCHANGED <<max_frames, acc, n, g_result, gei, gei_prev, v_pc, v_result,
                   valLoopVars, videoVars>>
    /\ UNCHANGED <<orchVars, scoreVars, svcVars, latVars, mailVars>>

\* Line 50.
NothingProcessedUnchecked == FALSE
NothingProcessed == n = 0

\* Line 52: (acc / n).clip(0.0, 1.0). acc is in halves, so the pixel is
\* acc / (2 * n), kept as numerator and denominator.
Clip(x, lo, hi) == IF x < lo THEN lo ELSE IF x > hi THEN hi ELSE x
NoGei == [num |-> 0, den |-> 0]
GeiMean(sum, count) == [num |-> Clip(sum, 0, 2 * count), den |-> 2 * count]

\* Lines 48-52: the mean of the masks, or RuntimeError when there is none.
GeiFinish ==
    /\ g_pc = "finish"
    /\ g_pc' = "done"
    /\ g_result' = IF NothingProcessed THEN GeiNoFramesError ELSE "returned"
    /\ gei' = IF NothingProcessed THEN NoGei ELSE GeiMean(acc, n)
    /\ UNCHANGED <<max_frames, acc, n, gei_prev, v_pc, v_result, valLoopVars, videoVars>>
    /\ UNCHANGED <<orchVars, scoreVars, svcVars, latVars, mailVars>>

\* No call of gei_from_video has ended yet.
NoPrev == [called |-> FALSE, max_frames |-> NoMaxFrames, result |-> "", gei |-> NoGei]

\* One more call of gei_from_video on the same file; what the call before
\* gave is remembered for comparison.
GeiCallAgain ==
    /\ g_pc = "done"
    /\ g_pc' = "start"
    /\ gei_prev' = [called |-> TRUE, max_frames |-> max_frames,
                    result |-> g_result, gei |-> gei]
    /\ g_result' = ""
    /\ gei' = NoGei
    /\ UNCHANGED <<max_frames, acc, n, v_pc, v_result, valLoopVars, videoVars>>
    /\ UNCHANGED <<orchVars, scoreVars, svcVars, latVars, mailVars>>

\* ---------------------------------- validator and energy image: the claims

\* C8: a video whose frames are all single-channel is accepted by
\* validate_thermal_video with thermal_ratio = 1, whatever its length and the
\* strict flag.
C8_SingleChannelAccepted ==
    (/\ v_pc = "done"
     /\ video_opened
     /\ Len(frames) >= 1
     /\ \A i \in 1..Len(frames) : SingleChannel(frames[i]))
      => (v_result = "accepted" /\ thermal_like = checked)

\* C9: at the aggregate decision with checked >= 1 the three class counters
\* add up to checked, that is, the three ratios add up to 1.
C9_RatiosSumToOne ==
    (v_pc \in {"aggregate", "done"} /\ checked >= 1)
      => thermal_like + non_thermal + uncertain = checked

\* C10: for a video that cannot be opened or that opens and yields no frame,
\* validate_thermal_video ends in FileValidationError and gei_from_video in
\* RuntimeError; neither returns normally.
C10_NoFramesRaises ==
    /\ (v_pc = "done" /\ ~video_opened) => v_result = OpenError
    /\ (v_pc = "done" /\ video_opened /\ Len(frames) = 0) => v_result = NoFramesError
    /\ (g_pc = "done" /\ ~video_opened) => g_result = GeiOpenError
    /\ (g_pc = "done" /\ video_opened /\ Len(frames) = 0) => g_result = GeiNoFramesError

\* C10 witness: both functions have ended on a video that opens and yields
\* no frame.
C10_Witness ==
    /\ video_opened
    /\ Len(frames) = 0
    /\ v_pc = "done"
    /\ g_pc = "done"
    /\ v_result = NoFramesError
    /\ g_result = GeiNoFramesError

\* The rules of the aggregate decision as the ratios thermal_ratio, rgb_ratio
\* and uncertain_ratio (fractions of checked) and the two averages state them.
C11_HardRule ==
    \/ thermal_like = 0
    \/ 10 * non_thermal > 3 * checked /\ AvgColorfulnessAbove45
    \/ 10 * uncertain > 5 * checked /\ 10 * thermal_like < 3 * checked
    \/ AvgSaturationAbove35 /\ 10 * thermal_like < 5 * checked
C11_SoftRule == 10 * non_thermal > 2 * checked /\ 10 * thermal_like < 4 * checked

C23_Stride ==
    IF cap_frame_count > 0 /\ cap_frame_count \div sample_frames >= 1
    THEN cap_frame_count \div sample_frames
    ELSE 1

\* C23: validate_thermal_video examines only frames whose index is a
\* multiple of step, step being max(1, frame_count // sample_frames) for a
\* known frame count and 1 otherwise, and it never examines more than
\* sample_frames frames.
C23_SamplesAtStrideAtMostSampleFrames ==
    /\ [](((v_pc \in {"loop", "aggregate", "done"}) /\ video_opened) =>
            (step = C23_Stride /\ checked <= sample_frames))
    /\ [][checked' # checked =>
            /\ checked' = checked + 1
            /\ frame_index < Len(frames)
            /\ frame_index % C23_Stride = 0]_vars

\* C23 witness: a video of four frames sampled twice at stride two.
C23_Witness ==
    /\ v_pc = "done"
    /\ Len(frames) = 4
    /\ cap_frame_count = 4
    /\ sample_frames = 2
    /\ step = 2
    /\ checked = 2
    /\ frame_index = 3

\* C24: the sampling loop goes on only while the frames classified rgb are
\* at most half of the frames examined; when they are more than half the
\* loop has stopped at the rgb frame that made them so, before which they
\* were at most half.
C24_StopsWhenRgbExceedsHalf ==
    /\ v_pc = "loop" => 2 * non_thermal <= checked
    /\ (v_pc \in {"aggregate", "done"} /\ 2 * non_thermal > checked) =>
          /\ frame_index < Len(frames)
          /\ Decision(frames[frame_index + 1]) = "rgb"
          /\ 2 * (non_thermal - 1) <= checked - 1

\* C24 witness: the first examined frame was rgb and sampling stopped with
\* checked = 1, more frames and more samples being available.
C24_Witness ==
    /\ v_pc = "done"
    /\ checked = 1
    /\ non_thermal = 1
    /\ frame_index = 0
    /\ sample_frames >= 2
    /\ Len(frames) >= 2

\* The sum of the masks of the first k frames, in halves.
RECURSIVE SumMasks(_)
SumMasks(k) == IF k = 0 THEN 0 ELSE SumMasks(k - 1) + frames[k].mask

Min(a, b) == IF a <= b THEN a ELSE b

\* The energy image has been returned.
GeiReturned == g_pc = "done" /\ g_result = "returned"

\* What gei_from_video returns is the sum of the n accumulated masks divided
\* by n, every pixel in [0,1].
C20_MeanOfMasks ==
    /\ acc = SumMasks(n)
    /\ gei.den = 2 * n
    /\ gei.num = SumMasks(n)
    /\ 0 <= gei.num
    /\ gei.num <= gei.den

\* C20 as stated: the returned energy image is the mean of the n accumulated
\* masks with every pixel in [0,1], n being the number of frames of the
\* video, capped by max_frames whenever max_frames is given.
C20_MeanOfMasksCappedByMaxFrames ==
    GeiReturned =>
        /\ C20_MeanOfMasks
        /\ n = (IF max_frames = NoMaxFrames THEN Len(frames)
                ELSE Min(Len(frames), max_frames))

\* C20 amended: the cap is max_frames only when max_frames >= 1; the loop
\* tests the cap after accumulating, so max_frames = 0 still processes one
\* frame.
C20_MeanOfMasksCappedAfterFirst ==
    GeiReturned =>
        /\ C20_MeanOfMasks
        /\ n >= 1
        /\ n = (IF max_frames = NoMaxFrames THEN Len(frames)
                ELSE Min(Len(frames), Max(max_frames, 1)))

\* C20 witness: an energy image of two frames has been returned for a longer
\* video cut by max_frames, one mask partial.
C20_Witness ==
    /\ GeiReturned
    /\ max_frames = 2
    /\ Len(frames) > 2
    /\ n = 2
    /\ gei.num = 3

\* ---------------------------------------------------- scoring: operations

\* Bound of the family of scores.
MaxReconSteps == 5

\* The three analyze_video of the repository, by file.
BackendService == "backend/ml/service.py"
AppsApiService == "apps/api/ml/service.py"
InferenceService == "apps/api/apps/api/ml/service.py"
ServiceClasses == {BackendService, AppsApiService, InferenceService}
GaitServices == {BackendService, AppsApiService}

\* 0.179 (the calibrated optimal threshold) and 0.50 (the default of
\* ML_THREAT_THRESHOLD). The apps/api copy of GaitAnalysisService has 0.179
\* written in; the other two read the threshold from their configuration.
Thresholds == {17900, 50000}
ThresholdsOf(class) == IF class = AppsApiService THEN {17900} ELSE Thresholds

\* Reconstruction errors 0, 0.0002, ... and latent distances around the
\* values that put the combined score on a threshold, just beside it, and
\* on either side of the confidence clamp.
ReconErrors == {20 * k : k \in 0..MaxReconSteps}
LatentScores == {0, 35700, 35780, 35800, 50000, 99960, 99980, 100000, 100020,
                 148980, 149000, 200000, 358000}

Abs(x) == IF x < 0 THEN 0 - x ELSE x

\* round(x, 3) for x >= 0: to the nearest multiple of 0.001, a tie to the even
\* one.
Round3(x) ==
    LET q == x \div 100
        r == x % 100
    IN  IF r < 50 THEN 100 * q
        ELSE IF r > 50 THEN 100 * (q + 1)
        ELSE IF q % 2 = 0 THEN 100 * q
        ELSE 100 * (q + 1)

\* combined_score. MLInferenceService divides the latent norm by 10.0 first.
CombinedScore(class, re, ld) ==
    IF class = InferenceService
    THEN (re + ld \div 10) \div 2
    ELSE (re + ld) \div 2

\* threat_detected = combined_score >= threshold
ThreatDetectedStrictly(score, limit) == score > limit
ThreatDetected(score, limit) == score >= limit

\* confidence = min(0.5 + distance_from_threshold * 2.0, 0.99)
ConfidenceUnclamped(distance) == 50000 + 2 * distance
Confidence(distance) == Min(50000 + 2 * distance, 99000)

NoScoreResults == [threat_detected |-> FALSE]

\* The entries of the returned dictionary that carry numbers.
GaitResults ==
    [threat_detected |-> threat_detected,
     confidence_score |-> Round3(confidence),
     threat_confidence |->
         Round3(IF threat_detected THEN confidence ELSE 100000 - confidence),
     combined_score |-> Round3(combined_score),
     reconstruction_error |-> Round3(recon_error),
     latent_score |-> Round3(latent_score),
     threshold |-> threshold]
InferenceResults ==
    [threat_detected |-> threat_detected,
     confidence_score |-> confidence,
     threat_confidence |-> threat_confidence,
     combined_score |-> combined_score,
     reconstruction_error |-> recon_error,
     latent_score |-> latent_score,
     optimal_threshold |-> threshold]

\* The model's two anomaly signals for the energy image.
ComputeScores(re, ld) ==
    /\ s_pc = "start"
    /\ s_pc' = "scores"
    /\ recon_error' = re
    /\ latent_score' = ld
    /\ UNCHANGED <<service_class, threshold, combined_score, threat_detected,
                   confidence, threat_confidence, results>>
    /\ UNCHANGED <<orchVars, valVars, svcVars, latVars, mailVars>>

CombineScores ==
    /\ s_pc = "scores"
    /\ s_pc' = "combined"
    /\ combined_score' = CombinedScore(service_class, recon_error, latent_score)
    /\ UNCHANGED <<service_class, threshold, recon_error, latent_score,
                   threat_detected, confidence, threat_confidence, results>>
    /\ UNCHANGED <<orchVars, valVars, svcVars, latVars, mailVars>>

DetectThreat ==
    /\ s_pc = "combined"
    /\ s_pc' = "verdict"
    /\ threat_detected' = ThreatDetected(combined_score, threshold)
    /\ UNCHANGED <<service_class, threshold, recon_error, latent_score,
                   combined_score, confidence, threat_confidence, results>>
    /\ UNCHANGED <<orchVars, valVars, svcVars, latVars, mailVars>>

\* GaitAnalysisService: the distance from the threshold, scaled and clamped.
ComputeConfidence ==
    /\ s_pc = "verdict"
    /\ service_class \in GaitServices
    /\ s_pc' = "confidence"
    /\ confidence' = Confidence(Abs(combined_score - threshold))
    /\ UNCHANGED <<service_class, threshold, recon_error, latent_score,
                   combined_score, threat_detected, threat_confidence, results>>
    /\ UNCHANGED <<orchVars, valVars, svcVars, latVars, mailVars>>

\* MLInferenceService: the ratio of the score to the threshold (here rounded
\* down to the unit).
ComputeConfidenceInference ==
    /\ s_pc = "verdict"
    /\ service_class = InferenceService
    /\ s_pc' = "confidence"
    /\ LET ratio == (100000 * combined_score) \div threshold
       IN  /\ threat_confidence' = IF threat_detected THEN Min(ratio, 200000) ELSE 0
           /\ confidence' = IF threat_detected THEN Min(ratio, 200000)
                            ELSE 100000 - ratio
    /\ UNCHANGED <<service_class, threshold, recon_error, latent_score,
                   combined_score, threat_detected, results>>
    /\ UNCHANGED <<orchVars, valVars, svcVars, latVars, mailVars>>

PrepareResults ==
    /\ s_pc = "confidence"
    /\ s_pc' = "done"
    /\ results' = IF service_class = InferenceService
                  THEN InferenceResults ELSE GaitResults
    /\ UNCHANGED <<service_class, threshold, recon_error, latent_score,
                   combined_score, threat_detected, confidence, threat_confidence>>
    /\ UNCHANGED <<orchVars, valVars, svcVars, latVars, mailVars>>

ScoreLocalsInit ==
    /\ recon_error = 0
    /\ latent_score = 0
    /\ combined_score = 0
    /\ threat_detected = FALSE
    /\ confidence = 0
    /\ threat_confidence = 0
    /\ results = NoScoreResults

ScoreIdle ==
    /\ s_pc = "idle"
    /\ service_class = BackendService
    /\ threshold = 50000
    /\ ScoreLocalsInit

ScoreInit ==
    /\ s_pc = "start"
    /\ service_class \in ServiceClasses
    /\ threshold \in ThresholdsOf(service_class)
    /\ ScoreLocalsInit

ScoreNext ==
    \/ \E re \in ReconErrors, ld \in LatentScores : ComputeScores(re, ld)
    \/ CombineScores
    \/ DetectThreat
    \/ ComputeConfidence
    \/ ComputeConfidenceInference
    \/ PrepareResults

\* -------------------------------------------------------- scoring: claims

\* The verdict of a GaitAnalysisService has been computed.
GaitVerdict ==
    service_class \in GaitServices /\ s_pc \in {"verdict", "confidence", "done"}

\* C12: in GaitAnalysisService.analyze_video threat_detected is true exactly
\* when combined_score >= threshold: true at equality, false for every score
\* strictly below, and that verdict is the one returned.
C12_ThreatIffAtOrAboveThreshold ==
    GaitVerdict =>
        /\ combined_score = threshold => threat_detected
        /\ combined_score > threshold => threat_detected
        /\ combined_score < threshold => ~threat_detected
        /\ s_pc = "done" => results.threat_detected = threat_detected

\* C12 witness: the backend service has returned a threat verdict for a
\* combined score equal to the threshold.
C12_Witness ==
    /\ service_class = BackendService
    /\ s_pc = "done"
    /\ combined_score = threshold
    /\ results.threat_detected

\* The confidence of a GaitAnalysisService has been computed.
GaitConfidence == service_class \in GaitServices /\ s_pc \in {"confidence", "done"}

\* C13: the confidence of analyze_video is min(0.5 + 2*|combined_score -
\* threshold|, 0.99): it lies in [0.5, 0.99], does not decrease when the
\* distance grows, increases strictly while below the clamp, is 0.5 at the
\* threshold, and the reported confidence_score (rounded to 3 decimals) lies
\* in [0.5, 0.99] too.
C13_ConfidenceClampedMonotone ==
    GaitConfidence =>
        LET d == Abs(combined_score - threshold)
            wanted == IF 50000 + 2 * d < 99000 THEN 50000 + 2 * d ELSE 99000
        IN  /\ confidence = wanted
            /\ 50000 <= confidence
            /\ confidence <= 99000
            /\ combined_score = threshold => confidence = 50000
            /\ \A e \in 0..d : Confidence(e) <= confidence
            /\ \A e \in 0..(d - 1) : confidence < 99000 => Confidence(e) < confidence
            /\ \A e \in (d + 1)..(d + 10) :
                  /\ Confidence(e) >= confidence
                  /\ Confidence(e) < 99000 => Confidence(e) > confidence
            /\ s_pc = "done" =>
                  /\ 50000 <= results.confidence_score
                  /\ results.confidence_score <= 99000

\* C13 witness: a score far enough from the threshold for the clamp to cut
\* the confidence, returned.
C13_Witness ==
    /\ service_class \in GaitServices
    /\ s_pc = "done"
    /\ 50000 + 2 * Abs(combined_score - threshold) > 99000
    /\ results.confidence_score = 99000

\* C14: every analyze_video of the repository computes combined_score as
\* 0.5 * reconstruction error + 0.5 * latent distance, the latent distance
\* unscaled.
C14_EqualWeightsOnEveryPath ==
    s_pc \in {"combined", "verdict", "confidence", "done"}
      => 2 * combined_score = recon_error + latent_score

\* C30: the dictionary a GaitAnalysisService returns is consistent with
\* itself: its threat_detected is true exactly when its combined_score (the
\* score rounded to 3 decimals) is >= its threshold, and its
\* threat_confidence is its confidence_score when threat_detected and
\* 1 - confidence_score otherwise.
C30_ReportedVerdictMatchesReportedScore ==
    (service_class \in GaitServices /\ s_pc = "done") =>
        /\ results.threat_detected <=> results.combined_score >= results.threshold
        /\ results.threat_confidence =
              (IF results.threat_detected THEN results.confidence_score
               ELSE 100000 - results.confidence_score)

\* ------------------------------------------- the ML service: operations

\* Background jobs that call analyze_video_sync in one process; BackgroundTasks
\* runs them on threads of a pool.
MaxJobs == 2
Jobs == 1..MaxJobs

\* self.model: None, or a ConvAutoencoder that has or has not been given the
\* trained weights, moved to the device and put in eval mode.
NoModel == [built |-> FALSE, weights |-> FALSE, placed |-> FALSE, eval |-> FALSE]
UntrainedModel == [built |-> TRUE, weights |-> FALSE, placed |-> FALSE, eval |-> FALSE]

\* The attributes before and after GaitAnalysisService.__init__.
NoService ==
    [device |-> "None", model |-> NoModel, config |-> FALSE,
     threshold |-> "unset", latent_mean |-> FALSE, latent_cov_inv |-> FALSE]
FreshService ==
    [device |-> "None", model |-> NoModel, config |-> FALSE,
     threshold |-> "ML_THREAT_THRESHOLD", latent_mean |-> FALSE,
     latent_cov_inv |-> FALSE]

Devices == {"cpu", "accelerator"}

\* A checkpoint file: a dictionary with model_state_dict and possibly the
\* latent statistics, or a bare state dict.
Checkpoints ==
    {c \in [wrapped : BOOLEAN, latent_mean : BOOLEAN, latent_cov_inv : BOOLEAN] :
        ~c.wrapped => (~c.latent_mean /\ ~c.latent_cov_inv)}

ConfigError == "load_yaml raised"
CheckpointError == "torch.load raised"
StateDictError == "load_state_dict raised"
AnalysisError == "RuntimeError: ML analysis failed"

svcGhosts == <<load_count, load_failed, cached_calls>>
svcHost == <<host_device, checkpoint>>

\* get_ml_service, line 265: the test of the global.
GetMlService(t) ==
    /\ j_pc[t] = "get_ml_service"
    /\ j_pc' = [j_pc EXCEPT ![t] = IF ml_service THEN "analyze_video" ELSE "construct"]
    /\ UNCHANGED <<ml_service, initialized, service, j_ret, j_result, scored_with,
                   svcGhosts, svcHost>>
    /\ UNCHANGED <<orchVars, valVars, scoreVars, latVars, mailVars>>

\* Line 266: _ml_service = GaitAnalysisService(). __new__ returns the one
\* instance and __init__ sets the attributes only while _initialized is
\* false (taken as one step).
ConstructService(t) ==
    /\ j_pc[t] = "construct"
    /\ service' = IF initialized THEN service ELSE FreshService
    /\ initialized' = TRUE
    /\ ml_service' = TRUE
    /\ j_pc' = [j_pc EXCEPT ![t] = "load_model"]
    /\ j_ret' = [j_ret EXCEPT ![t] = "get_ml_service"]
    /\ UNCHANGED <<j_result, scored_with, svcGhosts, svcHost>>
    /\ UNCHANGED <<orchVars, valVars, scoreVars, latVars, mailVars>>

\* Where job t goes on when load_model returns.
AfterLoad(t) == IF j_ret[t] = "get_ml_service" THEN "analyze_video" ELSE "inference"

\* Line 50: if self.model is not None: return
AlreadyLoadedIgnored == FALSE
AlreadyLoaded == service.model # NoModel

\* load_model, lines 50-52.
LoadModel(t) ==
    /\ j_pc[t] = "load_model"
    /\ IF AlreadyLoaded
       THEN /\ cached_calls' = cached_calls + 1
            /\ j_pc' = [j_pc EXCEPT ![t] = AfterLoad(t)]
            /\ UNCHANGED load_count
       ELSE /\ load_count' = load_count + 1
            /\ j_pc' = [j_pc EXCEPT ![t] = "load_yaml"]
            /\ UNCHANGED cached_calls
    /\ UNCHANGED <<ml_service, initialized, service, j_ret, j_result, scored_with,
                   load_failed, svcHost>>
    /\ UNCHANGED <<orchVars, valVars, scoreVars, latVars, mailVars>>

\* An exception leaves load_model and, through get_ml_service or
\* analyze_video (line 137 is outside the try), the job.
LoadRaises(t, e) ==
    /\ j_pc' = [j_pc EXCEPT ![t] = "done"]
    /\ j_result' = [j_result EXCEPT ![t] = e]
    /\ load_failed' = TRUE

\* Line 63.
LoadYaml(t, ok) ==
    /\ j_pc[t] = "load_yaml"
    /\ IF ok
       THEN /\ service' = [service EXCEPT !.config = TRUE]
            /\ j_pc' = [j_pc EXCEPT ![t] = "device_auto"]
            /\ UNCHANGED <<j_result, load_failed>>
       ELSE /\ LoadRaises(t, ConfigError)
            /\ UNCHANGED service
    /\ UNCHANGED <<ml_service, initialized, j_ret, scored_with, load_count,
                   cached_calls, svcHost>>
    /\ UNCHANGED <<orchVars, valVars, scoreVars, latVars, mailVars>>

\* Line 66.
DeviceAuto(t) ==
    /\ j_pc[t] = "device_auto"
    /\ service' = [service EXCEPT !.device = host_device]
    /\ j_pc' = [j_pc EXCEPT ![t] = "construct_model"]
    /\ UNCHANGED <<ml_service, initialized, j_ret, j_result, scored_with,
                   svcGhosts, svcHost>>
    /\ UNCHANGED <<orchVars, valVars, scoreVars, latVars, mailVars>>

\* Lines 69-74: self.model is a new ConvAutoencoder with its initial weights.
ConstructModel(t) ==
    /\ j_pc[t] = "construct_model"
    /\ service' = [service EXCEPT !.model = UntrainedModel]
    /\ j_pc' = [j_pc EXCEPT ![t] = "torch_load"]
    /\ UNCHANGED <<ml_service, initialized, j_ret, j_result, scored_with,
                   svcGhosts, svcHost>>
    /\ UNCHANGED <<orchVars, valVars, scoreVars, latVars, mailVars>>

\* Line 78.
TorchLoad(t, ok) ==
    /\ j_pc[t] = "torch_load"
    /\ IF ok
       THEN /\ j_pc' = [j_pc EXCEPT ![t] = "load_state_dict"]
            /\ UNCHANGED <<j_result, load_failed>>
       ELSE LoadRaises(t, CheckpointError)
    /\ UNCHANGED <<ml_service, initialized, service, j_ret, scored_with,
                   load_count, cached_calls, svcHost>>
    /\ UNCHANGED <<orchVars, valVars, scoreVars, latVars, mailVars>>

\* Lines 81-90: the weights go into whatever self.model is now, and the
\* latent statistics the checkpoint has are kept.
LoadStateDict(t, ok) ==
    /\ j_pc[t] = "load_state_dict"
    /\ IF ok
       THEN /\ service' =
                 [service EXCEPT
                    !.model.weights = TRUE,
                    !.latent_mean = @ \/ checkpoint.latent_mean,
                    !.latent_cov_inv = @ \/ checkpoint.latent_cov_inv]
            /\ j_pc' = [j_pc EXCEPT ![t] = "to_device"]
            /\ UNCHANGED <<j_result, load_failed>>
       ELSE /\ LoadRaises(t, StateDictError)
            /\ UNCHANGED service
    /\ UNCHANGED <<ml_service, initialized, j_ret, scored_with, load_count,
                   cached_calls, svcHost>>
    /\ UNCHANGED <<orchVars, valVars, scoreVars, latVars, mailVars>>

\* Line 92.
ModelToDevice(t) ==
    /\ j_pc[t] = "to_device"
    /\ service' = [service EXCEPT !.model.placed = TRUE]
    /\ j_pc' = [j_pc EXCEPT ![t] = "eval"]
    /\ UNCHANGED <<ml_service, initialized, j_ret, j_result, scored_with,
                   svcGhosts, svcHost>>
    /\ UNCHANGED <<orchVars, valVars, scoreVars, latVars, mailVars>>

\* Line 93, and the return of load_model.
ModelEval(t) ==
    /\ j_pc[t] = "eval"
    /\ service' = [service EXCEPT !.model.eval = TRUE]
    /\ j_pc' = [j_pc EXCEPT ![t] = AfterLoad(t)]
    /\ UNCHANGED <<ml_service, initialized, j_ret, j_result, scored_with,
                   svcGhosts, svcHost>>
    /\ UNCHANGED <<orchVars, valVars, scoreVars, latVars, mailVars>>

\* analyze_video, lines 136-137.
AnalyzeVideo(t) ==
    /\ j_pc[t] = "analyze_video"
    /\ IF service.model = NoModel
       THEN /\ j_pc' = [j_pc EXCEPT ![t] = "load_model"]
            /\ j_ret' = [j_ret EXCEPT ![t] = "analyze_video"]
       ELSE /\ j_pc' = [j_pc EXCEPT ![t] = "inference"]
            /\ UNCHANGED j_ret
    /\ UNCHANGED <<ml_service, initialized, service, j_result, scored_with,
                   svcGhosts, svcHost>>
    /\ UNCHANGED <<orchVars, valVars, scoreVars, latVars, mailVars>>

\* The forward passes need the input and the weights on one device.
CanInfer ==
    /\ service.config
    /\ service.model.placed \/ service.device = "cpu"

\* analyze_video, lines 139-216: the energy image, the two scores with
\* self.model as it is now, the results; any exception becomes RuntimeError.
Inference(t, gei_ok) ==
    /\ j_pc[t] = "inference"
    /\ j_pc' = [j_pc EXCEPT ![t] = "done"]
    /\ IF gei_ok /\ CanInfer
       THEN /\ j_result' = [j_result EXCEPT ![t] = "score"]
            /\ scored_with' = [scored_with EXCEPT ![t] = service.model]
       ELSE /\ j_result' = [j_result EXCEPT ![t] = AnalysisError]
            /\ UNCHANGED scored_with
    /\ UNCHANGED <<ml_service, initialized, service, j_ret, svcGhosts, svcHost>>
    /\ UNCHANGED <<orchVars, valVars, scoreVars, latVars, mailVars>>

SvcLocalsInit ==
    /\ ml_service = FALSE
    /\ initialized = FALSE
    /\ service = NoService
    /\ j_ret = [t \in Jobs |-> "none"]
    /\ j_result = [t \in Jobs |-> "none"]
    /\ scored_with = [t \in Jobs |-> NoModel]
    /\ load_count = 0
    /\ load_failed = FALSE
    /\ cached_calls = 0

SvcIdle ==
    /\ host_device = "cpu"
    /\ checkpoint = [wrapped |-> FALSE, latent_mean |-> FALSE, latent_cov_inv |-> FALSE]
    /\ j_pc = [t \in Jobs |-> "idle"]
    /\ SvcLocalsInit

\* A fresh process on some host with some checkpoint file, every job about
\* to call analyze_video_sync.
SvcInit ==
    /\ host_device \in Devices
    /\ checkpoint \in Checkpoints
    /\ j_pc = [t \in Jobs |-> "get_ml_service"]
    /\ SvcLocalsInit

SvcNext ==
    \/ \E t \in Jobs : GetMlService(t)
    \/ \E t \in Jobs : ConstructService(t)
    \/ \E t \in Jobs : LoadModel(t)
    \/ \E t \in Jobs, ok \in BOOLEAN : LoadYaml(t, ok)
    \/ \E t \in Jobs : DeviceAuto(t)
    \/ \E t \in Jobs : ConstructModel(t)
    \/ \E t \in Jobs, ok \in BOOLEAN : TorchLoad(t, ok)
    \/ \E t \in Jobs, ok \in BOOLEAN : LoadStateDict(t, ok)
    \/ \E t \in Jobs : ModelToDevice(t)
    \/ \E t \in Jobs : ModelEval(t)
    \/ \E t \in Jobs : AnalyzeVideo(t)
    \/ \E t \in Jobs, gei_ok \in BOOLEAN : Inference(t, gei_ok)

\* ------------------------------------------------- the ML service: claims

\* C15: when several jobs make the first call to get_ml_service /
\* analyze_video_sync concurrently, the body of load_model executes at most
\* once in the process, whatever the interleaving.
C15_LoadBodyAtMostOnce == load_count <= 1

\* C16: once a load of the model artifact has raised, no job returns a score
\* that was computed by a model that never received the trained weights.
C16_NoScoreFromUntrainedModel ==
    \A t \in Jobs :
        (load_failed /\ j_result[t] = "score") => scored_with[t].weights

\* C29: when no load has raised, a job that found self.model set and ran
\* inference did so on a model that had received its weights, been moved to
\* the device and been put in eval mode.
C29_InferenceOnlyOnLoadedModel ==
    \A t \in Jobs :
        (~load_failed /\ j_result[t] = "score") =>
            /\ scored_with[t].weights
            /\ scored_with[t].placed
            /\ scored_with[t].eval

\* A load_model has run to its end: the model has the weights, is on the
\* device and in eval mode.
ModelLoaded ==
    /\ ml_service
    /\ service.model = [built |-> TRUE, weights |-> TRUE, placed |-> TRUE, eval |-> TRUE]

\* Job t enters get_ml_service, GaitAnalysisService(), load_model or
\* analyze_video's test of self.model in this step.
EntersCall(t) ==
    /\ j_pc[t] \in {"get_ml_service", "construct", "load_model", "analyze_video"}
    /\ j_pc'[t] # j_pc[t]

\* C17: once the model is loaded, a further call of load_model,
\* get_ml_service or GaitAnalysisService() leaves model, config, device,
\* threshold, _latent_mean and _latent_cov_inv as they are and begins no
\* load.
C17_LoadModelIdempotent ==
    [][\A t \in Jobs :
          (ModelLoaded /\ EntersCall(t)) =>
              /\ service' = service
              /\ ml_service' = ml_service
              /\ load_count' = load_count
              /\ j_pc'[t] \notin {"load_yaml", "device_auto", "construct_model",
                                  "torch_load", "load_state_dict", "to_device", "eval"}]_vars

\* C17 witness: one load has happened, a later call of load_model has
\* returned at once, and every job has scored with the loaded model.
C17_Witness ==
    /\ ModelLoaded
    /\ load_count = 1
    /\ cached_calls >= 1
    /\ ~load_failed
    /\ \A t \in Jobs : j_pc[t] = "done" /\ j_result[t] = "score"

C22_SaturatedColourRejected ==
    (/\ v_pc = "done"
     /\ video_opened
     /\ Len(frames) >= 1
     /\ \A i \in 1..Len(frames) : frames[i] \in SaturatedFrames)
      => /\ thermal_like = 0
         /\ non_thermal = checked
         /\ v_result = RejectionError

\* The false-colour palette profile.
C25_PaletteProfile(f) ==
    /\ f.unique_sats < 15
    /\ f.dominant_hue_bins <= 6
    /\ f.mean_saturation > 40
    /\ f.hue_std < 25

\* C25: examining a frame of 3 or more channels increments exactly one of
\* thermal_like, non_thermal and uncertain; it is thermal_like when the frame
\* both looks thermal and is clearly rgb, and when it matches the false-colour
\* palette profile; it is not non_thermal when unique_sats <= 20.
C25_ExactlyOneClassThermalFirst ==
    [][(/\ checked' = checked + 1
        /\ frame_index < Len(frames)
        /\ frames[frame_index + 1].channels >= 3)
         => LET f == frames[frame_index + 1]
                dt == thermal_like' - thermal_like
                dr == non_thermal' - non_thermal
                du == uncertain' - uncertain
            IN  /\ {dt, dr, du} \subseteq {0, 1}
                /\ dt + dr + du = 1
                /\ (LooksThermal(f) /\ ClearlyRgb(f)) => dt = 1
                /\ C25_PaletteProfile(f) => dt = 1
                /\ f.unique_sats <= 20 => dr = 0]_vars

\* C25 witness: a frame that both looks thermal and is clearly rgb has been
\* examined and counted as thermal.
C25_Witness ==
    /\ v_pc = "done"
    /\ Len(frames) = 1
    /\ LooksThermal(frames[1])
    /\ ClearlyRgb(frames[1])
    /\ thermal_like = 1
    /\ non_thermal = 0

\* ------------------------------------------------------- latent distance
\* src/backend/ml/service.py, GaitAnalysisService.load_model lines 80-90 and
\* _compute_latent_distance lines 105-120. Latent vectors have two integer
\* components; distances are in tenths, rounded down.

LatentIndex == 1..2

\* Largest absolute value of a latent component.
MaxLatent == 2

Latents == [LatentIndex -> (0 - MaxLatent)..MaxLatent]

\* None, for a statistic that was not loaded (lines 43-44).
NoStat == <<>>

ArtifactKeys == {"model_state_dict", "latent_mean", "latent_cov_inv"}

Means == {<<0, 0>>, <<1, -1>>}

\* Inverse covariance matrices: symmetric, positive semidefinite.
CovInvs ==
    {<<<<1, 0>>, <<0, 1>>>>,
     <<<<2, 1>>, <<1, 2>>>>,
     <<<<1, -1>>, <<-1, 1>>>>,
     <<<<4, 0>>, <<0, 0>>>>}

\* What torch.load returns: the keys of the dict and the values stored under
\* latent_mean and latent_cov_inv (read only when the key is present).
Artifacts ==
    [keys : SUBSET ArtifactKeys, latent_mean : Means, latent_cov_inv : CovInvs]

\* Line 80: the wrapped format; line 84.
LoadsMean(a) == "model_state_dict" \in a.keys /\ "latent_mean" \in a.keys

\* Lines 80 and 86.
LoadsCovInvWheneverWrapped(a) == "model_state_dict" \in a.keys
LoadsCovInv(a) == "model_state_dict" \in a.keys /\ "latent_cov_inv" \in a.keys

\* torch.sqrt: nan below zero.
NaN == -1

Sqrt(x) ==
    IF x < 0 THEN NaN
    ELSE CHOOSE r \in 0..x : r * r <= x /\ (r + 1) * (r + 1) > x

\* Line 114: torch.norm(z, p=2, dim=1).
EuclideanNorm(z) == Sqrt(100 * (z[1] * z[1] + z[2] * z[2]))

\* Lines 118-119: sqrt(sum(diff @ cov_inv * diff)).
Mahalanobis(z, mean, cov_inv) ==
    LET diff == [i \in LatentIndex |-> z[i] - mean[i]]
        row(j) == diff[1] * cov_inv[1][j] + diff[2] * cov_inv[2][j]
    IN  Sqrt(100 * (row(1) * diff[1] + row(2) * diff[2]))

\* Line 112.
UseEuclidean(mean, cov_inv) == mean = NoStat \/ cov_inv = NoStat

LatLocalsInit ==
    /\ l_mean = NoStat
    /\ l_cov_inv = NoStat
    /\ l_z = <<0, 0>>
    /\ l_kind = "none"
    /\ l_distance = 0

LatIdle ==
    /\ l_pc = "idle"
    /\ artifact = [keys |-> {}, latent_mean |-> <<0, 0>>,
                   latent_cov_inv |-> <<<<1, 0>>, <<0, 1>>>>]
    /\ LatLocalsInit

\* A fresh service object (lines 43-44) and some checkpoint file.
LatInit ==
    /\ l_pc = "init"
    /\ artifact \in Artifacts
    /\ LatLocalsInit

\* Lines 80-90.
LatLoadStats ==
    /\ l_pc = "init"
    /\ l_pc' = "loaded"
    /\ l_mean' = IF LoadsMean(artifact) THEN artifact.latent_mean ELSE l_mean
    /\ l_cov_inv' = IF LoadsCovInv(artifact) THEN artifact.latent_cov_inv ELSE l_cov_inv
    /\ UNCHANGED <<artifact, l_z, l_kind, l_distance>>
    /\ UNCHANGED <<orchVars, valVars, scoreVars, svcVars, mailVars>>

\* Lines 105-120, the encoder producing z.
LatComputeDistance(z) ==
    /\ l_pc \in {"loaded", "scored"}
    /\ l_pc' = "scored"
    /\ l_z' = z
    /\ IF UseEuclidean(l_mean, l_cov_inv)
       THEN /\ l_kind' = "euclidean"
            /\ l_distance' = EuclideanNorm(z)
       ELSE /\ l_kind' = "mahalanobis"
            /\ l_distance' = Mahalanobis(z, l_mean, l_cov_inv)
    /\ UNCHANGED <<artifact, l_mean, l_cov_inv>>
    /\ UNCHANGED <<orchVars, valVars, scoreVars, svcVars, mailVars>>

LatNext ==
    \/ LatLoadStats
    \/ \E z \in Latents : LatComputeDistance(z)

MaxRecipients == 2

Addresses == {"", " ", "ops@example.org", " ops@example.org "}

\* str.strip().
Strip(addr) ==
    CASE addr = " " -> ""
      [] addr = " ops@example.org " -> "ops@example.org"
      [] OTHER -> addr

RecipientLists == UNION {[1..k -> Addresses] : k \in 0..MaxRecipients}

\* Line 16: [addr.strip() for addr in recipients if addr and addr.strip()].
FilterRecipients(rs) ==
    LET keep(addr) == addr # "" /\ Strip(addr) # ""
        kept == SelectSeq(rs, keep)
    IN  [i \in 1..Len(kept) |-> Strip(kept[i])]

SmtpServers == {"", "smtp.gmail.com"}
SmtpPorts == {0, 587}

\* analysis_results.get("gei_path"): None, or a path that is empty, names no
\* file, or names a file.
GeiPaths == {"None", "", "absent.png", "gei.png"}

\* Line 32: inline_image_path and Path(inline_image_path).exists().
InlineImageGiven(path) == path \notin {"None", ""} /\ path = "gei.png"

\* Line 27.
ConfigMissing == smtp_server = "" \/ smtp_port = 0

NoMessage == [kind |-> "none", image |-> FALSE]

MailLocalsInit ==
    /\ recipients = <<>>
    /\ message = NoMessage
    /\ send_called = FALSE
    /\ attach_failed = FALSE
    /\ smtp_raised = FALSE
    /\ send_return = "none"
    /\ notify_return = "none"
    /\ m_exc = FALSE

MailIdle ==
    /\ m_pc = "idle"
    /\ m_caller = "none"
    /\ alert_email_recipients = <<>>
    /\ smtp_server = "smtp.gmail.com"
    /\ smtp_port = 587
    /\ gei_path = "None"
    /\ MailLocalsInit

\* A call of notify_threat_detected, or of send_email itself with the same
\* list as its recipients argument, under some settings.
MailInit ==
    /\ m_caller \in {"notify", "direct"}
    /\ m_pc = IF m_caller = "notify" THEN "start" ELSE "send_email"
    /\ alert_email_recipients \in RecipientLists
    /\ smtp_server \in SmtpServers
    /\ smtp_port \in SmtpPorts
    /\ gei_path \in GeiPaths
    /\ MailLocalsInit

\* notifications.py lines 12-15.
NotifyCheckRecipients ==
    /\ m_pc = "start"
    /\ IF alert_email_recipients = <<>>
       THEN /\ notify_return' = "False"
            /\ m_pc' = "returned"
       ELSE /\ m_pc' = "send_email"
            /\ UNCHANGED notify_return
    /\ UNCHANGED <<alert_email_recipients, smtp_server, smtp_port, gei_path, recipients,
                   message, send_called, attach_failed, smtp_raised, m_caller,
                   send_return, m_exc>>
    /\ UNCHANGED <<orchVars, valVars, scoreVars, svcVars, latVars>>

\* email_utils.py lines 16-19.
SendEmailFilter ==
    /\ m_pc = "send_email"
    /\ send_called' = TRUE
    /\ recipients' = FilterRecipients(alert_email_recipients)
    /\ IF recipients' = <<>>
       THEN /\ send_return' = "False"
            /\ m_pc' = "sent_back"
       ELSE /\ m_pc' = "config"
            /\ UNCHANGED send_return
    /\ UNCHANGED <<alert_email_recipients, smtp_server, smtp_port, gei_path, message,
                   attach_failed, smtp_raised, m_caller, notify_return, m_exc>>
    /\ UNCHANGED <<orchVars, valVars, scoreVars, svcVars, latVars>>

\* Lines 21-29.
SendEmailConfig ==
    /\ m_pc = "config"
    /\ IF ConfigMissing
       THEN /\ send_return' = "False"
            /\ m_pc' = "sent_back"
       ELSE /\ m_pc' = "build"
            /\ UNCHANGED send_return
    /\ UNCHANGED <<alert_email_recipients, smtp_server, smtp_port, gei_path, recipients,
                   message, send_called, attach_failed, smtp_raised, m_caller,
                   notify_return, m_exc>>
    /\ UNCHANGED <<orchVars, valVars, scoreVars, svcVars, latVars>>

\* Lines 32-55 and 68-74: the multipart message or the plain one.
SendEmailBuild ==
    /\ m_pc = "build"
    /\ IF InlineImageGiven(gei_path)
       THEN /\ message' = [kind |-> "related", image |-> FALSE]
            /\ m_pc' = "attach"
       ELSE /\ message' = [kind |-> "plain", image |-> FALSE]
            /\ m_pc' = "smtp"
    /\ UNCHANGED <<alert_email_recipients, smtp_server, smtp_port, gei_path, recipients,
                   send_called, attach_failed, smtp_raised, m_caller, send_return,
                   notify_return, m_exc>>
    /\ UNCHANGED <<orchVars, valVars, scoreVars, svcVars, latVars>>

\* Lines 58-65 without the try/except: the exception leaves send_email.
AttachImageUnguarded(ok) ==
    IF ok
    THEN /\ message' = [message EXCEPT !.image = TRUE]
         /\ m_pc' = "smtp"
         /\ UNCHANGED <<attach_failed, m_exc>>
    ELSE /\ m_exc' = TRUE
         /\ m_pc' = "raised"
         /\ UNCHANGED <<message, attach_failed>>

\* Lines 58-67: open, read and attach the image; an exception is logged.
AttachImage(ok) ==
    IF ok
    THEN /\ message' = [message EXCEPT !.image = TRUE]
         /\ m_pc' = "smtp"
         /\ UNCHANGED <<attach_failed, m_exc>>
    ELSE /\ attach_failed' = TRUE
         /\ m_pc' = "smtp"
         /\ UNCHANGED <<message, m_exc>>

SendEmailAttach ==
    /\ m_pc = "attach"
    /\ \E ok \in BOOLEAN : AttachImage(ok)
    /\ UNCHANGED <<alert_email_recipients, smtp_server, smtp_port, gei_path, recipients,
                   send_called, smtp_raised, m_caller, send_return, notify_return>>
    /\ UNCHANGED <<orchVars, valVars, scoreVars, svcVars, latVars>>

\* Lines 76-88: the SMTP session inside try/except.
SendEmailSmtp ==
    /\ m_pc = "smtp"
    /\ \E ok \in BOOLEAN :
         /\ smtp_raised' = ~ok
         /\ send_return' = IF ok THEN "True" ELSE "False"
    /\ m_pc' = "sent_back"
    /\ UNCHANGED <<alert_email_recipients, smtp_server, smtp_port, gei_path, recipients,
                   message, send_called, attach_failed, m_caller, notify_return, m_exc>>
    /\ UNCHANGED <<orchVars, valVars, scoreVars, svcVars, latVars>>

\* notifications.py lines 53-61.
NotifyReturn ==
    /\ m_pc = "sent_back"
    /\ m_caller = "notify"
    /\ notify_return' = send_return
    /\ m_pc' = "returned"
    /\ UNCHANGED <<alert_email_recipients, smtp_server, smtp_port, gei_path, recipients,
                   message, send_called, attach_failed, smtp_raised, m_caller,
                   send_return, m_exc>>
    /\ UNCHANGED <<orchVars, valVars, scoreVars, svcVars, latVars>>

MailNext ==
    \/ NotifyCheckRecipients
    \/ SendEmailFilter
    \/ SendEmailConfig
    \/ SendEmailBuild
    \/ SendEmailAttach
    \/ SendEmailSmtp
    \/ NotifyReturn

\* C28 as stated: no exception leaves either function; send_email returns
\* False when the configuration is missing, the recipient list is empty, the
\* inline image could not be attached or the SMTP session raised; and
\* notify_threat_detected returns False without calling send_email when no
\* alert recipients are configured.
C28_EveryFailureReturnsFalse ==
    /\ ~m_exc
    /\ send_return # "none" =>
         ((recipients = <<>> \/ ConfigMissing \/ attach_failed \/ smtp_raised)
            => send_return = "False")
    /\ (m_pc = "returned" /\ alert_email_recipients = <<>>)
         => (notify_return = "False" /\ ~send_called)

\* C28, amended: no exception leaves either function; send_email returns
\* False exactly when the stripped recipient list is empty, the configuration
\* is missing or the SMTP session raised; a failed attachment is only logged,
\* the message goes out without the image and the result is that of the SMTP
\* session; notify_threat_detected returns False without calling send_email
\* when no alert recipients are configured, and send_email's result otherwise.
C28_FailureNotPropagated ==
    /\ ~m_exc
    /\ send_return # "none" =>
         /\ (send_return = "False") <=> (recipients = <<>> \/ ConfigMissing \/ smtp_raised)
         /\ attach_failed => (message.kind = "related" /\ ~message.image)
    /\ m_pc = "returned" =>
         IF alert_email_recipients = <<>>
         THEN notify_return = "False" /\ ~send_called
         ELSE send_called /\ notify_return = send_return

\* C28 witness: the image could not be attached, the SMTP session succeeded
\* and notify_threat_detected returned True.
C28_Witness ==
    /\ m_pc = "returned"
    /\ attach_failed
    /\ ~smtp_raised
    /\ notify_return = "True"

\* ------------------------------------------------------- the specifications

\* The validator and the energy image builder at rest.
ValIdle ==
    /\ video_opened = FALSE
    /\ frames = <<>>
    /\ cap_frame_count = 0
    /\ sample_frames = 1
    /\ strict = FALSE
    /\ v_pc = "idle"
    /\ g_pc = "idle"

ValLocalsInit ==
    /\ step = 1
    /\ frame_index = 0
    /\ checked = 0
    /\ non_thermal = 0
    /\ thermal_like = 0
    /\ uncertain = 0
    /\ sum_colorfulness = 0
    /\ sum_saturation = 0
    /\ frames_with_metrics = 0
    /\ v_result = ""
    /\ max_frames = NoMaxFrames
    /\ acc = 0
    /\ n = 0
    /\ g_result = ""
    /\ gei = NoGei
    /\ gei_prev = NoPrev

\* A video of the family, unreadable or readable, its container reporting its
\* frame count or none, and the two settings the validator reads.
ValInit ==
    /\ video_opened \in BOOLEAN
    /\ frames \in (IF video_opened THEN Videos ELSE {<<>>})
    /\ cap_frame_count \in {0, Len(frames)}
    /\ sample_frames \in 1..MaxSample
    /\ strict \in BOOLEAN
    /\ v_pc = "start"
    /\ g_pc = "start"

ValNext ==
    \/ ValidateOpen
    \/ ValidateEndOfVideo
    \/ ValidateSkipFrame
    \/ ValidateSingleChannelFrame
    \/ ValidateColorFrame
    \/ ValidateAggregate
    \/ \E m \in {NoMaxFrames} \cup 0..MaxFramesArg : GeiOpen(m)
    \/ GeiFrame
    \/ GeiEndOfVideo
    \/ GeiFinish

Init == OrchInit /\ ValIdle /\ ValLocalsInit /\ ScoreIdle /\ SvcIdle /\ LatIdle /\ MailIdle

Next == OrchNext

Spec == Init /\ [][Next]_vars

InitValidate == OrchInit /\ ValInit /\ ValLocalsInit /\ ScoreIdle /\ SvcIdle /\ LatIdle /\ MailIdle

SpecValidate == InitValidate /\ [][ValNext]_vars

\* validate_thermal_video on the probe videos.
ProbeInit ==
    /\ video_opened \in BOOLEAN
    /\ frames \in (IF video_opened THEN ProbeVideos ELSE {<<>>})
    /\ cap_frame_count \in {0, Len(frames)}
    /\ sample_frames \in 1..MaxSample
    /\ strict \in BOOLEAN
    /\ v_pc = "start"
    /\ g_pc = "idle"

ProbeNext ==
    \/ ValidateOpen
    \/ ValidateEndOfVideo
    \/ ValidateSkipFrame
    \/ ValidateSingleChannelFrame
    \/ ValidateColorFrame
    \/ ValidateAggregate

InitProbe == OrchInit /\ ProbeInit /\ ValLocalsInit /\ ScoreIdle /\ SvcIdle /\ LatIdle /\ MailIdle

SpecProbe == InitProbe /\ [][ProbeNext]_vars

\* gei_from_video called again and again on one file, outside the validator.
GeiInit ==
    /\ video_opened \in BOOLEAN
    /\ frames \in (IF video_opened THEN Videos ELSE {<<>>})
    /\ cap_frame_count = Len(frames)
    /\ sample_frames = 1
    /\ strict = FALSE
    /\ v_pc = "idle"
    /\ g_pc = "start"

GeiNext ==
    \/ \E m \in {NoMaxFrames} \cup 0..MaxFramesArg : GeiOpen(m)
    \/ GeiFrame
    \/ GeiEndOfVideo
    \/ GeiFinish
    \/ GeiCallAgain

InitGei == OrchInit /\ GeiInit /\ ValLocalsInit /\ ScoreIdle /\ SvcIdle /\ LatIdle /\ MailIdle

SpecGei == InitGei /\ [][GeiNext]_vars

InitScore == OrchInit /\ ValIdle /\ ValLocalsInit /\ ScoreInit /\ SvcIdle /\ LatIdle /\ MailIdle

SpecScore == InitScore /\ [][ScoreNext]_vars

InitService == OrchInit /\ ValIdle /\ ValLocalsInit /\ ScoreIdle /\ SvcInit /\ LatIdle /\ MailIdle

SpecService == InitService /\ [][SvcNext]_vars

InitLatent == OrchInit /\ ValIdle /\ ValLocalsInit /\ ScoreIdle /\ SvcIdle /\ LatInit /\ MailIdle

SpecLatent == InitLatent /\ [][LatNext]_vars

InitNotify == OrchInit /\ ValIdle /\ ValLocalsInit /\ ScoreIdle /\ SvcIdle /\ LatIdle /\ MailInit

SpecNotify == InitNotify /\ [][MailNext]_vars

====
